---- MODULE Spec2Model ----
(***************************************************************************)
(* Model of src/app.js: the nearby-shop search and the coordinate          *)
(* acquisition pipeline (startup resolution from localStorage and the      *)
(* optional stores_geocoded.json, batch geocoding, debounced and direct    *)
(* re-evaluation of the spatial query).                                    *)
(*                                                                         *)
(* Conventions.  A JavaScript string is a sequence of one-character        *)
(* strings.  ASCII stand-ins: "~" is any of the hyphen variants of line    *)
(* 384, "_" is U+3000 (full-width space), "B" is the character 番 and "G"  *)
(* the character 号.  A JavaScript number is written as its decimal        *)
(* literal (a string); "null" and "NaN" are the values Number.isFinite     *)
(* rejects.  Distances are in millimetres (naturals).                      *)
(***************************************************************************)
EXTENDS Integers, Sequences, FiniteSets, TLC

\* ------------------------------------------------------------------ bounds
NumShops == 2
StartupShops == 3
QueryShops == 4
BatchShops == 7
LookupShops == 4
MaxTime == 1000
TimeStep == 100
MaxBurst == 3
MaxSegments == 3
MaxPasses == 2
MaxGeoEntries == 2
MaxTabWrites == 1
MaxLocatePending == 1

\* --------------------------------------------------------------- constants
GEOCODE_DELAY_MS == 700
DEBOUNCE_MS == 250
DEFAULT_RADIUS == 500
MAX_HYPHEN_GROUPS == 4
POSTAL_DIGITS == 7

\* ------------------------------------------------------------ small helpers
Null == "null"
NaN == "NaN"

\* Number.isFinite (lines 288, 351, 363, 423, 452, 517)
IsFinite(x) == x \notin {Null, NaN}

\* ------------------------------------------------------ Address Normalizer
Digits == {"0", "1", "2", "3", "4", "5", "6", "7", "8", "9"}
HyphenLike == {"~"}
WhiteSpace == {" ", "_"}

IsDigit(c) == c \in Digits
IsSpace(c) == c \in WhiteSpace

RECURSIVE TrimStart(_)
TrimStart(s) ==
  IF s # << >> /\ IsSpace(Head(s)) THEN TrimStart(Tail(s)) ELSE s

RECURSIVE TrimEnd(_)
TrimEnd(s) ==
  IF s # << >> /\ IsSpace(s[Len(s)]) THEN TrimEnd(SubSeq(s, 1, Len(s) - 1)) ELSE s

\* String.prototype.trim (line 378)
Trim(s) == TrimEnd(TrimStart(s))

\* s.replace(/^\d{7}\s*/, '') (line 381)
StripPostal(s) ==
  IF Len(s) >= POSTAL_DIGITS /\ \A i \in 1..POSTAL_DIGITS : IsDigit(s[i])
  THEN TrimStart(SubSeq(s, POSTAL_DIGITS + 1, Len(s)))
  ELSE s

\* replace(/[hyphen variants]/g, '-') then replace(/　/g, ' ') (lines 384, 387)
UnifyChars(s) ==
  [i \in 1..Len(s) |->
     IF s[i] \in HyphenLike THEN "-" ELSE IF s[i] = "_" THEN " " ELSE s[i]]

\* replace(/\s+/g, ' ') (line 390); runs after line 387, so " " is the only
\* white space left
RECURSIVE CollapseSpaces(_)
CollapseSpaces(s) ==
  IF s = << >> THEN << >>
  ELSE IF IsSpace(Head(s))
       THEN <<" ">> \o CollapseSpaces(TrimStart(s))
       ELSE <<Head(s)>> \o CollapseSpaces(Tail(s))

normalizeForQuery(s) == CollapseSpaces(UnifyChars(StripPostal(Trim(s))))

\* the end of the maximal run of digits that starts at i (\d+ is greedy)
RECURSIVE DigitRunEnd(_, _)
DigitRunEnd(q, i) ==
  IF i < Len(q) /\ IsDigit(q[i + 1]) THEN DigitRunEnd(q, i + 1) ELSE i

\* (?:-\d+){1,4} from position e (the end of the previous run), n groups taken
RECURSIVE HyphenGroupsEnd(_, _, _)
HyphenGroupsEnd(q, e, n) ==
  IF n < MAX_HYPHEN_GROUPS /\ e + 2 <= Len(q) /\ q[e + 1] = "-" /\ IsDigit(q[e + 2])
  THEN HyphenGroupsEnd(q, DigitRunEnd(q, e + 2), n + 1)
  ELSE e

\* the end of a match of \d+(?:-\d+){1,4} that starts at k, or 0
HyphenChainEnd(q, k) ==
  IF ~IsDigit(q[k]) THEN 0
  ELSE LET e == DigitRunEnd(q, k)
           f == HyphenGroupsEnd(q, e, 0)
       IN IF f > e THEN f ELSE 0

\* the end of a match of \d+番\d+号 that starts at k, or 0
BanGoEnd(q, k) ==
  IF ~IsDigit(q[k]) THEN 0
  ELSE LET e == DigitRunEnd(q, k)
       IN IF e + 2 <= Len(q) /\ q[e + 1] = "B" /\ IsDigit(q[e + 2])
          THEN LET f == DigitRunEnd(q, e + 2)
               IN IF f + 1 <= Len(q) /\ q[f + 1] = "G" THEN f + 1 ELSE 0
          ELSE 0

\* ^(.*?X): the lazy prefix makes the leftmost start of a match of X win; the
\* end of that match, or 0
LeftmostHyphenChain(q) ==
  LET starts == {k \in 1..Len(q) : HyphenChainEnd(q, k) > 0}
  IN IF starts = {} THEN 0
     ELSE HyphenChainEnd(q, CHOOSE k \in starts : \A j \in starts : k <= j)

LeftmostBanGo(q) ==
  LET starts == {k \in 1..Len(q) : BanGoEnd(q, k) > 0}
  IN IF starts = {} THEN 0
     ELSE BanGoEnd(q, CHOOSE k \in starts : \A j \in starts : k <= j)

simplifiedQuery(s) ==
  LET q == normalizeForQuery(s)
      m1 == LeftmostHyphenChain(q)
      m2 == LeftmostBanGo(q)
  IN IF m1 > 0 THEN SubSeq(q, 1, m1)
     ELSE IF m2 > 0 THEN SubSeq(q, 1, m2)
     ELSE q

\* line 432 with the candidates swapped
buildQueries_simplifiedFirst(fullAddress) ==
  LET q1 == normalizeForQuery(fullAddress)
      q2 == simplifiedQuery(fullAddress)
      uniq == IF q1 = q2 THEN <<q2>> ELSE <<q2, q1>>
  IN SelectSeq(uniq, LAMBDA q : q # << >>)

\* Array.from(new Set([q1, q2])).filter(Boolean) (line 432)
buildQueries(fullAddress) ==
  LET q1 == normalizeForQuery(fullAddress)
      q2 == simplifiedQuery(fullAddress)
      uniq == IF q1 = q2 THEN <<q1>> ELSE <<q1, q2>>
  IN SelectSeq(uniq, LAMBDA q : q # << >>)

\* ------------------------------------------------------------ Distance Engine
\* The model's points lie on the meridian of DEFAULT_CENTER (line 9).
Lng0 == "139.390779"
LatP0 == "35.446423"
LatP1 == "35.451369"
LatA == "35.447322"
LatC == "35.451819"

PointA == [lat |-> LatA, lng |-> Lng0]
PointC == [lat |-> LatC, lng |-> Lng0]
Coords == {PointA, PointC}
Centers == {[lat |-> LatP0, lng |-> Lng0], [lat |-> LatP1, lng |-> Lng0]}
NoCenter == [lat |-> Null, lng |-> Null]

\* Haversine of lines 95-104 evaluated in IEEE doubles for the model's points
\* (dLon = 0), rounded to millimetres.
distanceMeters(lat1, lon1, lat2, lon2) ==
  CASE lat1 = LatP0 /\ lat2 = LatA -> 99964
    [] lat1 = LatP0 /\ lat2 = LatC -> 600008
    [] lat1 = LatP1 /\ lat2 = LatA -> 450006
    [] lat1 = LatP1 /\ lat2 = LatC -> 50038

\* ------------------------------------------------------------------- state
VARIABLES
  storesFile,          \* what ./stores.json answers (line 12)
  geoFile,             \* what ./stores_geocoded.json answers (line 13)
  localStorage,        \* shop id -> the raw entry under GEO_CACHE_PREFIX (line 27)
  storageMode,         \* "ok", "full" (setItem throws), "denied" (every access throws)
  tabWrites,           \* writes made so far by other tabs of the same origin
  mainPc,              \* where main() (lines 592-606) stands
  stores,              \* line 32
  centerLatLng,        \* line 37
  geocodeRunning,      \* line 41
  geocodeProgress,     \* line 42
  pendingUpdateTimer,  \* line 44
  radiusInput,         \* $('radius').value
  voucherFilter,       \* $('voucherFilter').value
  status,              \* $('status').textContent, by message kind
  list,                \* what renderList last put into $('list')
  locatePending,       \* getCurrentPosition requests not yet answered
  runs,                \* the suspended invocations of startGeocodeAll
  now,                 \* the clock, in ms (it stands still where durations are abstracted)
  requests,            \* history: when scheduleUpdateResults was called since the last
                       \* timer-driven evaluation
  text,                \* the string normalizeForQuery is applied to (SpecNormalize)
  passes               \* how many times it has been applied to it

vars == <<storesFile, geoFile, localStorage, storageMode, tabWrites, mainPc, stores,
          centerLatLng, geocodeRunning, geocodeProgress, pendingUpdateTimer,
          radiusInput, voucherFilter, status, list, locatePending, runs, now, requests,
          text, passes>>

envVars == <<storesFile, geoFile, storageMode, now, text, passes>>

\* ------------------------------------------------------------- input data
VoucherCommon == "kyotsuken"                  \* '共通券' (line 88)
VoucherBoth == "kyotsuken-kotengenteiken"     \* '共通券・個店限定券' (line 89)
VoucherShop == "kotengenteiken"               \* any other category of the dataset
VoucherCycle == <<VoucherCommon, VoucherBoth, VoucherShop>>

Postal == <<"2", "4", "3", "0", "4", "3", "2">>
AddressCycle ==
  << Postal \o <<"_", "a", "2", "~", "2", "b", "2", "F">>,   \* two query candidates
     << >>,                                                  \* no candidate
     <<"a", "b">>,                                           \* one candidate
     <<"a", "5", "B", "4", "G", "9">> >>                     \* two, by the second rule

\* record i of a stores.json of n records
DatasetRecord(i) ==
  [id |-> i,
   voucher |-> VoucherCycle[((i - 1) % Len(VoucherCycle)) + 1],
   fullAddress |-> AddressCycle[((i - 1) % Len(AddressCycle)) + 1]]

StoresFiles(n) ==
  {[kind |-> k, n |-> 0] : k \in {"unreachable", "notok", "badjson", "notarray", "nullelement"}}
  \cup {[kind |-> "array", n |-> n]}

\* entries of stores_geocoded.json: well formed (the bulk value is PointC) or not
GeoEntries(n) ==
  {[id |-> i, lat |-> la, lng |-> Lng0] : i \in 1..n, la \in {LatC, NaN}}

SeqsUpTo(S, n) == UNION {[1..m -> S] : m \in 0..n}

GeoFiles(n) ==
  {[kind |-> k, entries |-> << >>] :
      k \in {"unreachable", "notok", "badjson", "notarray", "nullelement"}}
  \cup {[kind |-> "array", entries |-> e] : e \in SeqsUpTo(GeoEntries(n), MaxGeoEntries)}

Absent == [tag |-> "absent"]
Corrupt == [tag |-> "corrupt"]
Entry(lat, lng) == [tag |-> "coords", lat |-> lat, lng |-> lng]

\* what a localStorage of this origin may hold at startup: entries written by
\* earlier sessions (PointA), damaged entries, nothing
StartupEntries == {Absent, Corrupt, Entry(LatA, Lng0)}

\* ---------------------------------------------------------- Coordinate Cache
NotCached == [found |-> FALSE, lat |-> Null, lng |-> Null]

\* loadCachedCoords (lines 282-295) on storage ls
loadCachedCoords(ls, storeId) ==
  IF storageMode = "denied" THEN NotCached                \* getItem throws: catch
  ELSE IF ls[storeId].tag # "coords" THEN NotCached       \* no entry, or unusable
  ELSE [found |-> TRUE, lat |-> ls[storeId].lat, lng |-> ls[storeId].lng]

\* saveCachedCoords with a setItem that never throws
saveCachedCoords_forced(ls, storeId, lat, lng) ==
  [ls EXCEPT ![storeId] = Entry(lat, lng)]

\* saveCachedCoords (lines 297-306): the storage after the call
saveCachedCoords(ls, storeId, lat, lng) ==
  IF storageMode = "ok" THEN [ls EXCEPT ![storeId] = Entry(lat, lng)]
  ELSE ls                                                 \* setItem throws: catch

\* ------------------------------------------------------- presentation state
Msg(m, a, b) == [msg |-> m, a |-> a, b |-> b]

HasCoords(s) == IsFinite(s.lat) /\ IsFinite(s.lng)

\* the shops without coordinates, in input order, as positions of stores
\* (lines 452 and 363: the complement)
RECURSIVE MissingFrom(_, _)
MissingFrom(st, i) ==
  IF i > Len(st) THEN << >>
  ELSE (IF HasCoords(st[i]) THEN << >> ELSE <<i>>) \o MissingFrom(st, i + 1)

\* line 452 without the filter: every shop
Missing_all(st) == [i \in 1..Len(st) |-> i]

Missing(st) == MissingFrom(st, 1)

FailureView == [kind |-> "failure", nearby |-> << >>, missingCoords |-> 0]
PromptView == [kind |-> "prompt", nearby |-> << >>, missingCoords |-> 0]

\* renderList (lines 208-276); the cap MAX_LIST_ITEMS is above the model's sizes
renderList(center, nearby, missingCoords) ==
  IF center = NoCenter THEN PromptView
  ELSE [kind |-> "results", nearby |-> nearby, missingCoords |-> missingCoords]

\* parseInt(value, 10) of the values the radius control offers; "NaN" otherwise
RadiusInputs == {"500", "1000"}
parseInt(v) == CASE v = "500" -> 500 [] v = "1000" -> 1000 [] OTHER -> NaN

\* getRadiusMeters (lines 76-79), in millimetres
getRadiusMeters(input) ==
  IF input \in RadiusInputs THEN parseInt(input) * 1000 ELSE DEFAULT_RADIUS * 1000

VoucherFilters == {"all", "common", "both"}

\* lines 88-89 with a prefix test in place of ===
matchesVoucherFilter_prefix(f, store) ==
  IF f = "all" THEN TRUE
  ELSE IF f = "common" THEN store.voucher \in {VoucherCommon, VoucherBoth}
  ELSE IF f = "both" THEN store.voucher = VoucherBoth
  ELSE TRUE

\* matchesVoucherFilter (lines 85-91)
matchesVoucherFilter(f, store) ==
  IF f = "all" THEN TRUE
  ELSE IF f = "common" THEN store.voucher = VoucherCommon
  ELSE IF f = "both" THEN store.voucher = VoucherBoth
  ELSE TRUE

\* --------------------------------------------------- Spatial Query Engine
Distance(center, s) == distanceMeters(center.lat, center.lng, s.lat, s.lng)

\* lines 517-529: the positions of the shops with coordinates, matching the
\* filter, within the radius, in input order
RECURSIVE NearbyFrom(_, _, _, _, _)
NearbyFrom(st, center, radius, f, i) ==
  IF i > Len(st) THEN << >>
  ELSE (IF /\ HasCoords(st[i])
           /\ matchesVoucherFilter(f, st[i])
           /\ Distance(center, st[i]) <= radius
        THEN <<i>> ELSE << >>) \o NearbyFrom(st, center, radius, f, i + 1)

\* the comparator of line 531 with equal distances swapped
SortsBefore_orEqual(da, db) == da - db <= 0

\* the comparator of line 531: a sorts before b
SortsBefore(da, db) == da - db < 0

\* Array.prototype.sort (line 531) is stable: x goes after every element that
\* does not sort after it
RECURSIVE InsertSorted(_, _, _, _)
InsertSorted(sorted, x, st, center) ==
  IF sorted = << >> THEN <<x>>
  ELSE IF SortsBefore(Distance(center, st[x]), Distance(center, st[Head(sorted)]))
       THEN <<x>> \o sorted
       ELSE <<Head(sorted)>> \o InsertSorted(Tail(sorted), x, st, center)

RECURSIVE SortByDistance(_, _, _)
SortByDistance(seq, st, center) ==
  IF seq = << >> THEN << >>
  ELSE InsertSorted(SortByDistance(SubSeq(seq, 1, Len(seq) - 1), st, center),
                    seq[Len(seq)], st, center)

\* updateResults (lines 508-535): what it renders
updateResults(st, center, input, f) ==
  IF center = NoCenter THEN renderList(center, << >>, 0)
  ELSE LET radius == getRadiusMeters(input)
           missingCoords == Len(Missing(st))
           nearby == SortByDistance(NearbyFrom(st, center, radius, f, 1), st, center)
       IN renderList(center, nearby, missingCoords)

\* ---------------------------------------------------------------- startup
\* pendingUpdateTimer: null, or the timeout armed at line 502 and when it is due
NoTimer == [armed |-> FALSE, due |-> 0]

InitialView == [kind |-> "initial", nearby |-> << >>, missingCoords |-> 0]

\* The environments a session may start in: what the two files answer, how the
\* storage behaves and what it holds.  A file or a storage that is never read
\* is left at one value.
AllAbsent(n) == [i \in 1..n |-> Absent]
NoGeoFile == [kind |-> "unreachable", entries |-> << >>]
Environment(sf, gf, mode, ls) ==
  [storesFile |-> sf, geoFile |-> gf, storageMode |-> mode, localStorage |-> ls]

FailingEnvironments(n) ==
  {Environment(sf, NoGeoFile, "ok", AllAbsent(n)) :
     sf \in {f \in StoresFiles(n) : f.kind # "array"}}

\* every environment of a dataset of n shops
AllEnvironments(n) ==
  FailingEnvironments(n)
  \cup {Environment([kind |-> "array", n |-> n], gf, mode, ls) :
          gf \in GeoFiles(n), mode \in {"ok", "full"}, ls \in [1..n -> StartupEntries]}
  \cup {Environment([kind |-> "array", n |-> n], gf, "denied", AllAbsent(n)) :
          gf \in GeoFiles(n)}

\* the environments of Spec: every failure of the dataset; nothing resolved at
\* startup, with a storage that takes writes and with one that refuses them
\* (one that refuses reads as well behaves the same once nothing is stored);
\* the first shop resolved by the cache and the last one by the bulk file; the
\* same entries with a storage that throws on every access
MainEnvironments(n) ==
  FailingEnvironments(n)
  \cup {Environment([kind |-> "array", n |-> n], NoGeoFile, mode, AllAbsent(n)) :
          mode \in {"ok", "full"}}
  \cup {Environment([kind |-> "array", n |-> n],
                    [kind |-> "array", entries |-> <<[id |-> n, lat |-> LatC, lng |-> Lng0]>>],
                    mode, [AllAbsent(n) EXCEPT ![1] = Entry(LatA, Lng0)]) :
          mode \in {"ok", "denied"}}

InitIn(environments) ==
  /\ \E e \in environments :
       /\ storesFile = e.storesFile
       /\ geoFile = e.geoFile
       /\ storageMode = e.storageMode
       /\ localStorage = e.localStorage
  /\ tabWrites = 0
  /\ mainPc = "boot"
  /\ stores = << >>
  /\ centerLatLng = NoCenter
  /\ geocodeRunning = FALSE
  /\ geocodeProgress = [done |-> 0, total |-> 0]
  /\ pendingUpdateTimer = NoTimer
  /\ radiusInput = "500"
  /\ voucherFilter = "all"
  /\ status = Msg("", 0, 0)
  /\ list = InitialView
  /\ locatePending = 0
  /\ runs = << >>
  /\ now = 0
  /\ requests = << >>
  /\ text = << >>
  /\ passes = 0

Init == InitIn(MainEnvironments(NumShops))

\* lines 320-331: the shop list as built from the dataset
BuildStores(n) ==
  [i \in 1..n |->
     [id |-> DatasetRecord(i).id,
      voucher |-> DatasetRecord(i).voucher,
      fullAddress |-> DatasetRecord(i).fullAddress,
      lat |-> Null,
      lng |-> Null]]

\* the loop of lines 334-340 left out
ApplyCache_skipped(st, ls) == st

\* lines 334-340: the cache values applied
ApplyCache(st, ls) ==
  [i \in 1..Len(st) |->
     LET cached == loadCachedCoords(ls, st[i].id)
     IN IF cached.found
        THEN [st[i] EXCEPT !.lat = cached.lat, !.lng = cached.lng]
        ELSE st[i]]

\* new Map(geo.map(...)) (line 348): a later entry replaces an earlier one of
\* the same id
HasGeoEntry(entries, id) == \E j \in 1..Len(entries) : entries[j].id = id

ById(entries, id) ==
  entries[CHOOSE j \in 1..Len(entries) :
            /\ entries[j].id = id
            /\ \A k \in (j + 1)..Len(entries) : entries[k].id # id]

\* line 351
GeoMatches(entries, id) ==
  /\ HasGeoEntry(entries, id)
  /\ IsFinite(ById(entries, id).lat)
  /\ IsFinite(ById(entries, id).lng)

\* line 351 with the bulk value kept for shops without coordinates only
ApplyGeoStores_cacheWins(st, entries) ==
  [i \in 1..Len(st) |->
     IF GeoMatches(entries, st[i].id) /\ ~HasCoords(st[i])
     THEN [st[i] EXCEPT !.lat = ById(entries, st[i].id).lat,
                        !.lng = ById(entries, st[i].id).lng]
     ELSE st[i]]

\* lines 349-356, the shops
ApplyGeoStores(st, entries) ==
  [i \in 1..Len(st) |->
     IF GeoMatches(entries, st[i].id)
     THEN [st[i] EXCEPT !.lat = ById(entries, st[i].id).lat,
                        !.lng = ById(entries, st[i].id).lng]
     ELSE st[i]]

\* lines 349-356, the cache: saveCachedCoords for shops i..Len(st) in turn
RECURSIVE ApplyGeoCache(_, _, _, _)
ApplyGeoCache(st, entries, ls, i) ==
  IF i > Len(st) THEN ls
  ELSE ApplyGeoCache(st, entries,
         IF GeoMatches(entries, st[i].id)
         THEN saveCachedCoords(ls, st[i].id, ById(entries, st[i].id).lat,
                               ById(entries, st[i].id).lng)
         ELSE ls,
         i + 1)

\* lines 363-370
LoadedStatus(st) ==
  IF Len(Missing(st)) = 0 THEN Msg("loaded-ready", Len(st), 0)
  ELSE Msg("loaded-missing", Len(st), Len(Missing(st)))

\* DOMContentLoaded: main runs initMap and loadStores up to the fetch of line 311
Main ==
  /\ mainPc = "boot"
  /\ mainPc' = "awaitStores"
  /\ status' = Msg("loading", 0, 0)
  /\ UNCHANGED <<envVars, localStorage, tabWrites, stores, centerLatLng, geocodeRunning,
                 geocodeProgress, pendingUpdateTimer, radiusInput, voucherFilter, list,
                 locatePending, runs, requests>>

\* the catch of main (lines 598-605)
StartupFailure ==
  /\ mainPc' = "failed"
  /\ status' = Msg("failed", 0, 0)
  /\ list' = FailureView
  /\ UNCHANGED <<envVars, localStorage, tabWrites, stores, centerLatLng, geocodeRunning,
                 geocodeProgress, pendingUpdateTimer, radiusInput, voucherFilter,
                 locatePending, runs, requests>>

\* the fetch of line 311 settles
StoresFetched ==
  /\ mainPc = "awaitStores"
  /\ IF storesFile.kind \in {"unreachable", "notok"}
     THEN StartupFailure
     ELSE /\ mainPc' = "awaitStoresJson"
          /\ UNCHANGED <<envVars, localStorage, tabWrites, stores, centerLatLng,
                         geocodeRunning, geocodeProgress, pendingUpdateTimer, radiusInput,
                         voucherFilter, status, list, locatePending, runs, requests>>

\* res.json() of line 315 settles; lines 316-344 run up to the second fetch
StoresParsed ==
  /\ mainPc = "awaitStoresJson"
  /\ IF storesFile.kind # "array"
     THEN StartupFailure
     ELSE /\ stores' = ApplyCache(BuildStores(storesFile.n), localStorage)
          /\ mainPc' = "awaitGeo"
          /\ UNCHANGED <<envVars, localStorage, tabWrites, centerLatLng, geocodeRunning,
                         geocodeProgress, pendingUpdateTimer, radiusInput, voucherFilter,
                         status, list, locatePending, runs, requests>>

\* lines 363-370 of loadStores, then wireUi and renderList([], null) of main
FinishStartup(st, ls) ==
  /\ stores' = st
  /\ localStorage' = ls
  /\ status' = LoadedStatus(st)
  /\ mainPc' = "ready"
  /\ list' = renderList(centerLatLng, << >>, 0)
  /\ UNCHANGED <<envVars, tabWrites, centerLatLng, geocodeRunning, geocodeProgress,
                 pendingUpdateTimer, radiusInput, voucherFilter, locatePending, runs, requests>>

\* the fetch of line 344 settles
GeoFetched ==
  /\ mainPc = "awaitGeo"
  /\ IF geoFile.kind \in {"unreachable", "notok"}
     THEN FinishStartup(stores, localStorage)
     ELSE /\ mainPc' = "awaitGeoJson"
          /\ UNCHANGED <<envVars, localStorage, tabWrites, stores, centerLatLng,
                         geocodeRunning, geocodeProgress, pendingUpdateTimer, radiusInput,
                         voucherFilter, status, list, locatePending, runs, requests>>

\* r.json() of line 346 settles
GeoParsed ==
  /\ mainPc = "awaitGeoJson"
  /\ IF geoFile.kind = "array"
     THEN FinishStartup(ApplyGeoStores(stores, geoFile.entries),
                        ApplyGeoCache(stores, geoFile.entries, localStorage, 1))
     ELSE FinishStartup(stores, localStorage)

\* ----------------------------------------------------------------- UI events
batchVars == <<geocodeRunning, geocodeProgress, runs>>

\* setSearchCenter (lines 128-156)
setSearchCenter(latlng, reason) ==
  /\ centerLatLng' = latlng
  /\ status' = Msg(reason, 0, 0)
  /\ list' = updateResults(stores, latlng, radiusInput, voucherFilter)
  /\ UNCHANGED <<envVars, localStorage, tabWrites, mainPc, stores, batchVars,
                 pendingUpdateTimer, radiusInput, voucherFilter, requests>>

\* the click handler initMap registers (lines 123-125)
MapTap ==
  /\ mainPc # "boot"
  /\ \E p \in Centers : setSearchCenter(p, "tap")
  /\ UNCHANGED locatePending

\* wireUi (lines 576-586) has run
Wired == mainPc = "ready"

\* locate (lines 549-570) up to getCurrentPosition, in a browser that has
\* navigator.geolocation
LocateClick ==
  /\ Wired
  /\ locatePending < MaxLocatePending
  /\ status' = Msg("locating", 0, 0)
  /\ locatePending' = locatePending + 1
  /\ UNCHANGED <<envVars, localStorage, tabWrites, mainPc, stores, centerLatLng, batchVars,
                 pendingUpdateTimer, radiusInput, voucherFilter, list, requests>>

\* the success callback (lines 558-564)
LocateSuccess ==
  /\ locatePending > 0
  /\ locatePending' = locatePending - 1
  /\ \E p \in Centers : setSearchCenter(p, "locate")

\* the error callback (lines 565-567)
LocateError ==
  /\ locatePending > 0
  /\ locatePending' = locatePending - 1
  /\ status' = Msg("geolocation-error", 0, 0)
  /\ UNCHANGED <<envVars, localStorage, tabWrites, mainPc, stores, centerLatLng, batchVars,
                 pendingUpdateTimer, radiusInput, voucherFilter, list, requests>>

\* the change handler of the radius control (lines 578-583)
RadiusChange ==
  /\ Wired
  /\ \E v \in RadiusInputs \ {radiusInput} :
       /\ radiusInput' = v
       /\ list' = updateResults(stores, centerLatLng, v, voucherFilter)
  /\ UNCHANGED <<envVars, localStorage, tabWrites, mainPc, stores, centerLatLng, batchVars,
                 pendingUpdateTimer, voucherFilter, status, locatePending, requests>>

\* the change handler of the filter control (line 584)
FilterChange ==
  /\ Wired
  /\ \E f \in VoucherFilters \ {voucherFilter} :
       /\ voucherFilter' = f
       /\ list' = updateResults(stores, centerLatLng, radiusInput, f)
  /\ UNCHANGED <<envVars, localStorage, tabWrites, mainPc, stores, centerLatLng, batchVars,
                 pendingUpdateTimer, radiusInput, status, locatePending, requests>>

\* ------------------------------------------------------- debounced update
\* lines 500-506 with the pending timeout cleared and set anew
scheduleUpdateResults_replace(timer, t) == [armed |-> TRUE, due |-> t + DEBOUNCE_MS]

\* scheduleUpdateResults (lines 500-506): the timer slot after a call at time t
scheduleUpdateResults(timer, t) ==
  IF timer.armed THEN timer
  ELSE [armed |-> TRUE, due |-> t + DEBOUNCE_MS]

\* the timeout callback (lines 502-505)
TimerFires ==
  /\ pendingUpdateTimer.armed
  /\ pendingUpdateTimer' = NoTimer
  /\ list' = updateResults(stores, centerLatLng, radiusInput, voucherFilter)
  /\ requests' = << >>
  /\ UNCHANGED <<envVars, localStorage, tabWrites, mainPc, stores, centerLatLng, batchVars,
                 radiusInput, voucherFilter, status, locatePending>>

\* another tab of the same origin stores a coordinate it has geocoded (the
\* case of the comment of line 464), here always PointC, for a shop the cache
\* has no coordinate of; what other tabs stored before this one read the cache
\* is part of the initial storage
OtherTabWrites ==
  /\ mainPc = "ready"
  /\ storageMode = "ok"
  /\ tabWrites < MaxTabWrites
  /\ tabWrites' = tabWrites + 1
  /\ \E id \in DOMAIN localStorage :
       /\ localStorage[id].tag # "coords"
       /\ localStorage' = [localStorage EXCEPT ![id] = Entry(PointC.lat, PointC.lng)]
  /\ UNCHANGED <<envVars, mainPc, stores, centerLatLng, batchVars, pendingUpdateTimer,
                 radiusInput, voucherFilter, status, list, locatePending, requests>>

\* ------------------------------------------------------ Geocode Orchestrator
\* A suspended invocation of startGeocodeAll: its list `missing` (positions of
\* stores), the position k in it of the shop being processed, the candidates of
\* geocodeStore and the one being looked up, and the await it is suspended at:
\* "fetch" (line 411), "json" (line 414) or "sleep" (line 488).  requested is
\* history: the positions in `missing` of the shops a lookup request has been
\* issued for since the invocation began.
Run(missing, k, queries, qi, pc, requested) ==
  [missing |-> missing, k |-> k, queries |-> queries, qi |-> qi, pc |-> pc,
   requested |-> requested]

Others(i) == SubSeq(runs, 1, i - 1) \o SubSeq(runs, i + 1, Len(runs))

\* geocodeStore answering a fixed point in place of null
NoHit_default == [found |-> TRUE, lat |-> LatA, lng |-> Lng0]

\* line 443
NoHit == [found |-> FALSE, lat |-> Null, lng |-> Null]
Hit(c) == [found |-> TRUE, lat |-> c.lat, lng |-> c.lng]

\* lines 465-471 left out
AdoptCached_ignored(st, done, missing, k) == [st |-> st, done |-> done, k |-> k]

\* lines 465-471, repeated while the cache answers: the shops and the counter
\* after it, and the position of the first shop the cache does not resolve
RECURSIVE AdoptCached(_, _, _, _)
AdoptCached(st, done, missing, k) ==
  IF k > Len(missing) THEN [st |-> st, done |-> done, k |-> k]
  ELSE LET cached == loadCachedCoords(localStorage, st[missing[k]].id)
       IN IF cached.found
          THEN AdoptCached([st EXCEPT ![missing[k]].lat = cached.lat,
                                      ![missing[k]].lng = cached.lng],
                           done + 1, missing, k + 1)
          ELSE [st |-> st, done |-> done, k |-> k]

\* line 483
Publishes(done, total) == done % 5 = 0 \/ done = total

\* lines 474-488: geocodeStore has returned `hit` for the shop at position k;
\* the invocation then sleeps.  running, stat and prog are geocodeRunning, the
\* status and geocodeProgress as the handler has them so far.
AfterGeocodeStore(others, running, stat, prog, st, missing, k, hit, requested) ==
  LET id == st[missing[k]].id
      done2 == prog.done + 1
  IN /\ stores' = IF hit.found
                  THEN [st EXCEPT ![missing[k]].lat = hit.lat, ![missing[k]].lng = hit.lng]
                  ELSE st
     /\ localStorage' = IF hit.found
                        THEN saveCachedCoords(localStorage, id, hit.lat, hit.lng)
                        ELSE localStorage
     /\ geocodeProgress' = [prog EXCEPT !.done = done2]
     /\ IF Publishes(done2, prog.total)
        THEN /\ status' = Msg("preparing", done2, prog.total)
             /\ pendingUpdateTimer' = scheduleUpdateResults(pendingUpdateTimer, now)
             /\ requests' = Append(requests, now)
        ELSE /\ status' = stat
             /\ UNCHANGED <<pendingUpdateTimer, requests>>
     /\ geocodeRunning' = running
     /\ runs' = Append(others, Run(missing, k, << >>, 0, "sleep", requested))
     /\ UNCHANGED list

\* lines 491-493 with the progress cleared
FinishBatch_reset(others, prog, st) ==
  /\ stores' = st
  /\ geocodeProgress' = [done |-> 0, total |-> 0]
  /\ geocodeRunning' = FALSE
  /\ status' = Msg("finished", 0, 0)
  /\ list' = updateResults(st, centerLatLng, radiusInput, voucherFilter)
  /\ runs' = others
  /\ UNCHANGED <<localStorage, pendingUpdateTimer, requests>>

\* lines 491-493
FinishBatch(others, prog, st) ==
  /\ stores' = st
  /\ geocodeProgress' = prog
  /\ geocodeRunning' = FALSE
  /\ status' = Msg("finished", 0, 0)
  /\ list' = updateResults(st, centerLatLng, radiusInput, voucherFilter)
  /\ runs' = others
  /\ UNCHANGED <<localStorage, pendingUpdateTimer, requests>>

\* the for loop of line 463 from position k0 of `missing` up to its next await
\* or to its end
LoopFrom(others, running, stat, prog, missing, k0, requested) ==
  LET r == AdoptCached(stores, prog.done, missing, k0)
      prog2 == [prog EXCEPT !.done = r.done]
  IN IF r.k > Len(missing) THEN FinishBatch(others, prog2, r.st)
     ELSE LET queries == buildQueries(r.st[missing[r.k]].fullAddress)
          IN IF queries = << >>
             THEN AfterGeocodeStore(others, running, stat, prog2, r.st, missing, r.k, NoHit,
                                    requested)
             ELSE /\ stores' = r.st
                  /\ geocodeProgress' = prog2
                  /\ geocodeRunning' = running
                  /\ status' = stat
                  /\ runs' = Append(others, Run(missing, r.k, queries, 1, "fetch",
                                                requested \cup {r.k}))
                  /\ UNCHANGED <<localStorage, pendingUpdateTimer, requests, list>>

\* the guard of line 447 left out
AlreadyRunning_never == FALSE

\* line 447
AlreadyRunning == geocodeRunning

\* startGeocodeAll (lines 446-494) from the click up to its first await
StartGeocodeAll ==
  /\ Wired
  /\ UNCHANGED <<envVars, tabWrites, mainPc, centerLatLng, radiusInput, voucherFilter,
                 locatePending>>
  /\ IF AlreadyRunning
     THEN /\ status' = Msg("busy", geocodeProgress.done, geocodeProgress.total)
          /\ UNCHANGED <<localStorage, stores, batchVars, pendingUpdateTimer, list, requests>>
     ELSE IF Missing(stores) = << >>
     THEN /\ status' = Msg("already-prepared", 0, 0)
          /\ list' = updateResults(stores, centerLatLng, radiusInput, voucherFilter)
          /\ UNCHANGED <<localStorage, stores, batchVars, pendingUpdateTimer, requests>>
     ELSE LoopFrom(runs, TRUE, Msg("preparing", 0, Len(Missing(stores))),
                   [done |-> 0, total |-> Len(Missing(stores))], Missing(stores), 1, {})

\* the response of the lookup (fetch of line 411) arrives, or the request fails
continuationVars == <<envVars, tabWrites, mainPc, centerLatLng, radiusInput, voucherFilter,
                      locatePending>>

\* lines 434-443 with `return null` in the catch of line 438: the first failure
\* ends the shop
NextCandidate_giveUp(i) ==
  AfterGeocodeStore(Others(i), geocodeRunning, status, geocodeProgress, stores,
                    runs[i].missing, runs[i].k, NoHit, runs[i].requested)

\* lines 434-443 starting over from the first candidate when the last one fails
NextCandidate_retry(i) ==
  LET r == runs[i]
  IN /\ runs' = Append(Others(i),
                       Run(r.missing, r.k, r.queries,
                           IF r.qi < Len(r.queries) THEN r.qi + 1 ELSE 1, "fetch",
                           r.requested))
     /\ UNCHANGED <<localStorage, stores, geocodeRunning, geocodeProgress,
                    pendingUpdateTimer, status, list, requests>>

\* lines 434-443 with the sleep of line 488 skipped when geocodeStore returns
\* null
NextCandidate_noDelay(i) ==
  LET r == runs[i]
  IN IF r.qi < Len(r.queries)
     THEN /\ runs' = Append(Others(i), Run(r.missing, r.k, r.queries, r.qi + 1, "fetch",
                                          r.requested))
          /\ UNCHANGED <<localStorage, stores, geocodeRunning, geocodeProgress,
                         pendingUpdateTimer, status, list, requests>>
     ELSE /\ LoopFrom(Others(i), geocodeRunning, status,
                      [geocodeProgress EXCEPT !.done = geocodeProgress.done + 1],
                      r.missing, r.k + 1, r.requested)
          /\ UNCHANGED <<localStorage, pendingUpdateTimer, requests>>

\* lines 434-443 after candidate qi of run i gave no hit: the next candidate is
\* looked up, or geocodeStore returns null
NextCandidate(i) ==
  LET r == runs[i]
  IN IF r.qi < Len(r.queries)
     THEN /\ runs' = Append(Others(i), Run(r.missing, r.k, r.queries, r.qi + 1, "fetch",
                                          r.requested))
          /\ UNCHANGED <<localStorage, stores, geocodeRunning, geocodeProgress,
                         pendingUpdateTimer, status, list, requests>>
     ELSE AfterGeocodeStore(Others(i), geocodeRunning, status, geocodeProgress, stores,
                            r.missing, r.k, NoHit, r.requested)

\* the fetch of line 411 settles: it rejects (caught at line 438), or answers
\* not ok (line 412), or answers ok and res.json() is awaited
FetchSettles ==
  \E i \in DOMAIN runs :
    /\ runs[i].pc = "fetch"
    /\ UNCHANGED continuationVars
    /\ \/ NextCandidate(i)
       \/ /\ runs' = Append(Others(i), [runs[i] EXCEPT !.pc = "json"])
          /\ UNCHANGED <<localStorage, stores, geocodeRunning, geocodeProgress,
                         pendingUpdateTimer, status, list, requests>>

\* res.json() of line 414 settles: it rejects (caught at line 438), or the body
\* holds no usable first feature (lines 415-423), or it holds coordinates
JsonSettles ==
  \E i \in DOMAIN runs :
    /\ runs[i].pc = "json"
    /\ UNCHANGED continuationVars
    /\ \/ NextCandidate(i)
       \/ \E c \in Coords :
            AfterGeocodeStore(Others(i), geocodeRunning, status, geocodeProgress, stores,
                              runs[i].missing, runs[i].k, Hit(c), runs[i].requested)

\* setTimeout callbacks run in the order of their due times: the sleep of line
\* 488 (GEOCODE_DELAY_MS) begins no earlier than the timeout of line 502 was
\* armed, and lasts longer
TimerOrder == ~pendingUpdateTimer.armed \/ GEOCODE_DELAY_MS < DEBOUNCE_MS

\* the sleep of line 488 ends
SleepEnds ==
  \E i \in DOMAIN runs :
    /\ runs[i].pc = "sleep"
    /\ TimerOrder
    /\ UNCHANGED continuationVars
    /\ LoopFrom(Others(i), geocodeRunning, status, geocodeProgress, runs[i].missing,
                runs[i].k + 1, runs[i].requested)

Next ==
  \/ Main
  \/ StoresFetched
  \/ StoresParsed
  \/ GeoFetched
  \/ GeoParsed
  \/ MapTap
  \/ LocateClick
  \/ LocateSuccess
  \/ LocateError
  \/ RadiusChange
  \/ FilterChange
  \/ StartGeocodeAll
  \/ FetchSettles
  \/ JsonSettles
  \/ SleepEnds
  \/ TimerFires
  \/ OtherTabWrites

Spec == Init /\ [][Next]_vars

\* Startup alone, in every environment of a dataset of StartupShops shops:
\* what the files answer, what the storage holds and how it behaves.
InitStartup == InitIn(AllEnvironments(StartupShops))

NextStartup ==
  \/ Main
  \/ StoresFetched
  \/ StoresParsed
  \/ GeoFetched
  \/ GeoParsed

SpecStartup == InitStartup /\ [][NextStartup]_vars

\* The Spatial Query Engine on every coordinate state of a dataset of
\* QueryShops shops: the session has started without cache and bulk file, its
\* storage refuses writes, and a batch over all shops has finished, resolving
\* any of them to any of the model's points.  No center is set yet.
ReadyWith(n) ==
  /\ storesFile = [kind |-> "array", n |-> n]
  /\ geoFile = NoGeoFile
  /\ storageMode = "full"
  /\ localStorage = AllAbsent(n)
  /\ tabWrites = 0
  /\ mainPc = "ready"
  /\ \E c \in [1..n -> Coords \cup {NoCenter}] :
       stores = [i \in 1..n |-> [BuildStores(n)[i] EXCEPT !.lat = c[i].lat, !.lng = c[i].lng]]
  /\ centerLatLng = NoCenter
  /\ geocodeRunning = FALSE
  /\ geocodeProgress = [done |-> n, total |-> n]
  /\ pendingUpdateTimer = NoTimer
  /\ radiusInput = "500"
  /\ voucherFilter = "all"
  /\ status = Msg("finished", 0, 0)
  /\ list = PromptView
  /\ locatePending = 0
  /\ runs = << >>
  /\ now = 0
  /\ requests = << >>
  /\ text = << >>
  /\ passes = 0

InitQuery == ReadyWith(QueryShops)

NextQuery ==
  \/ MapTap
  \/ LocateClick
  \/ LocateSuccess
  \/ LocateError
  \/ RadiusChange
  \/ FilterChange

SpecQuery == InitQuery /\ [][NextQuery]_vars

\* ======================================================================
\* Properties
\* ======================================================================

\* C1: single flight.  At most one invocation of startGeocodeAll is ever
\* active, geocodeRunning says whether one is, and a start request that arrives
\* while a batch runs starts no loop, issues no lookup and leaves
\* geocodeProgress, the coordinates and the cache as they are: it only reports
\* the progress.
C1_SingleFlight ==
  /\ [](Len(runs) <= 1 /\ (geocodeRunning <=> runs # << >>))
  /\ [][(geocodeRunning /\ StartGeocodeAll)
          => /\ UNCHANGED <<runs, geocodeRunning, geocodeProgress, stores, localStorage,
                            pendingUpdateTimer, list>>
             /\ status' = Msg("busy", geocodeProgress.done, geocodeProgress.total)]_vars

\* a start request has arrived while a lookup of the running batch is outstanding
C1_Witness ==
  /\ status.msg = "busy"
  /\ Len(runs) = 1
  /\ runs[1].pc \in {"fetch", "json"}

\* ---------------------------------------------------------------- startup
\* loadStores returns in this step (lines 363-370)
LoadStoresReturns == mainPc \in {"awaitGeo", "awaitGeoJson"} /\ mainPc' = "ready"

\* the shop of id i has a usable cache entry / an entry of the bulk file that
\* line 351 accepts (of several entries of one id the file's last one counts)
CacheEntryOf(i) == loadCachedCoords(localStorage, i)
BulkEntryOf(i) == ById(geoFile.entries, i)
HasCacheEntry(i) == CacheEntryOf(i).found
HasBulkEntry(i) == geoFile.kind = "array" /\ GeoMatches(geoFile.entries, i)
Conflicting(i) ==
  /\ HasCacheEntry(i)
  /\ HasBulkEntry(i)
  /\ <<CacheEntryOf(i).lat, CacheEntryOf(i).lng>> # <<BulkEntryOf(i).lat, BulkEntryOf(i).lng>>

\* C2 as stated: after loadStores every shop with a cache entry and a
\* conflicting well-formed bulk entry has the bulk value as its coordinate, and
\* so has its cache entry.
C2_AsStated ==
  [][LoadStoresReturns =>
       \A i \in 1..Len(stores) :
         Conflicting(i) =>
           /\ stores'[i].lat = BulkEntryOf(i).lat
           /\ stores'[i].lng = BulkEntryOf(i).lng
           /\ localStorage'[i] = Entry(BulkEntryOf(i).lat, BulkEntryOf(i).lng)]_vars

\* C2, amended: after loadStores every shop with a cache entry and a
\* conflicting well-formed bulk entry has the bulk value as its coordinate; its
\* cache entry holds the bulk value too when the storage accepts the write, and
\* is left as it was when the write fails.
C2_BulkPrecedence ==
  [][LoadStoresReturns =>
       \A i \in 1..Len(stores) :
         Conflicting(i) =>
           /\ stores'[i].lat = BulkEntryOf(i).lat
           /\ stores'[i].lng = BulkEntryOf(i).lng
           /\ localStorage'[i] =
                IF storageMode = "ok"
                THEN Entry(BulkEntryOf(i).lat, BulkEntryOf(i).lng)
                ELSE localStorage[i]]_vars

\* loadStores has returned for a shop with the cache entry PointA and the bulk
\* entry PointC while the storage refuses writes: the shop is at PointC
C2_Witness ==
  /\ mainPc = "ready"
  /\ storageMode = "full"
  /\ \E i \in 1..Len(stores) :
       /\ Conflicting(i)
       /\ localStorage[i] = Entry(LatA, Lng0)
       /\ BulkEntryOf(i).lat = LatC
       /\ stores[i].lat = LatC

\* C3: when loadStores returns, a shop has coordinates exactly if it has a
\* usable cache entry or a bulk entry that line 351 accepts (a bulk file that
\* is missing or does not parse to an array of records supplies none), and the
\* count of shops without position in the status is the number of shops with
\* neither.
Neither == {i \in 1..Len(stores) : ~HasCacheEntry(i) /\ ~HasBulkEntry(i)}

C3_ResolvedIffSourced ==
  [][LoadStoresReturns =>
       /\ \A i \in 1..Len(stores) :
            HasCoords(stores'[i]) <=> (HasCacheEntry(i) \/ HasBulkEntry(i))
       /\ status' = IF Neither = {}
                    THEN Msg("loaded-ready", Len(stores), 0)
                    ELSE Msg("loaded-missing", Len(stores), Cardinality(Neither))]_vars

\* loadStores has returned with one shop resolved by the cache, one by the bulk
\* file and the count of the others in the status
C3_Witness ==
  /\ mainPc = "ready"
  /\ \E i, j \in 1..Len(stores) :
       /\ i # j
       /\ stores[i].lat = LatA
       /\ stores[j].lat = LatC
  /\ status = Msg("loaded-missing", StartupShops, StartupShops - 2)

\* scheduleUpdateResults and its timeout under a clock, with callers that may
\* call at any time: the clock advances by TimeStep or to the time the timeout
\* is due, and never beyond a due timeout, whose callback runs at its due time.
InitDebounce == ReadyWith(NumShops)

Tick ==
  /\ now < MaxTime
  /\ \E t \in {now + TimeStep}
              \cup (IF pendingUpdateTimer.armed THEN {pendingUpdateTimer.due} ELSE {}) :
       /\ t > now
       /\ pendingUpdateTimer.armed => t <= pendingUpdateTimer.due
       /\ now' = t
  /\ UNCHANGED <<storesFile, geoFile, storageMode, localStorage, tabWrites, mainPc, stores,
                 centerLatLng, batchVars, pendingUpdateTimer, radiusInput, voucherFilter,
                 status, list, locatePending, requests, text, passes>>

\* a call of scheduleUpdateResults() (line 485) at the present time
ScheduleRequest ==
  /\ Len(requests) < MaxBurst
  /\ pendingUpdateTimer' = scheduleUpdateResults(pendingUpdateTimer, now)
  /\ requests' = Append(requests, now)
  /\ UNCHANGED <<envVars, localStorage, tabWrites, mainPc, stores, centerLatLng, batchVars,
                 radiusInput, voucherFilter, status, list, locatePending>>

\* the timeout of line 502 expires
TimerFiresDue == now = pendingUpdateTimer.due /\ TimerFires

NextDebounce ==
  \/ Tick
  \/ ScheduleRequest
  \/ TimerFiresDue

SpecDebounce == InitDebounce /\ [][NextDebounce]_vars

\* The Geocode Orchestrator alone on a dataset of BatchShops shops: the session
\* has started with nothing cached and no bulk file, no center is chosen, and
\* the only control used is the one that starts the batch.  Since the session
\* read the cache, another tab has stored the coordinate of no shop or of one.
CachedByOthers(n) ==
  {AllAbsent(n)} \cup {[AllAbsent(n) EXCEPT ![id] = Entry(PointC.lat, PointC.lng)] : id \in 1..n}

BatchReady(n) ==
  /\ storesFile = [kind |-> "array", n |-> n]
  /\ geoFile = NoGeoFile
  /\ storageMode = "ok"
  /\ localStorage \in CachedByOthers(n)
  /\ tabWrites = IF localStorage = AllAbsent(n) THEN 0 ELSE 1
  /\ mainPc = "ready"
  /\ stores = BuildStores(n)
  /\ centerLatLng = NoCenter
  /\ geocodeRunning = FALSE
  /\ geocodeProgress = [done |-> 0, total |-> 0]
  /\ pendingUpdateTimer = NoTimer
  /\ radiusInput = "500"
  /\ voucherFilter = "all"
  /\ status = LoadedStatus(BuildStores(n))
  /\ list = PromptView
  /\ locatePending = 0
  /\ runs = << >>
  /\ now = 0
  /\ requests = << >>
  /\ text = << >>
  /\ passes = 0

InitBatch == BatchReady(BatchShops)

NextBatch ==
  \/ StartGeocodeAll
  \/ FetchSettles
  \/ JsonSettles
  \/ SleepEnds
  \/ TimerFires

SpecBatch == InitBatch /\ [][NextBatch]_vars

\* an invocation is suspended at the await p
AtPc(p) == \E i \in DOMAIN runs : runs[i].pc = p

\* a ready page of LookupShops shops
InitLookup == BatchReady(LookupShops)

\* the same, every lookup eventually settling, every sleep eventually ending
\* and every due timeout eventually running its callback: WF_vars of the four
\* continuations, with the state predicate each is enabled in written out
SpecLookupFair ==
  /\ InitLookup /\ [][NextBatch]_vars
  /\ ([]<>(~AtPc("fetch")) \/ []<><<FetchSettles>>_vars)
  /\ ([]<>(~AtPc("json")) \/ []<><<JsonSettles>>_vars)
  /\ ([]<>(~(AtPc("sleep") /\ TimerOrder)) \/ []<><<SleepEnds>>_vars)
  /\ ([]<>(~pendingUpdateTimer.armed) \/ []<><<TimerFires>>_vars)

\* normalizeForQuery applied, and applied again, to every string of up to
\* MaxSegments pieces: a postal code, a space, a full-width space, a hyphen
\* variant, a hyphen, a letter, a digit.  The page has not started.
Segments == {Postal, <<" ">>, <<"_">>, <<"~">>, <<"-">>, <<"a">>, <<"1">>}

RECURSIVE Concat(_)
Concat(pieces) == IF pieces = << >> THEN << >> ELSE Head(pieces) \o Concat(Tail(pieces))

Texts == {Concat(pieces) : pieces \in SeqsUpTo(Segments, MaxSegments)}

InitNormalize ==
  /\ storesFile = [kind |-> "array", n |-> NumShops]
  /\ geoFile = NoGeoFile
  /\ storageMode = "ok"
  /\ localStorage = AllAbsent(NumShops)
  /\ tabWrites = 0
  /\ mainPc = "boot"
  /\ stores = << >>
  /\ centerLatLng = NoCenter
  /\ geocodeRunning = FALSE
  /\ geocodeProgress = [done |-> 0, total |-> 0]
  /\ pendingUpdateTimer = NoTimer
  /\ radiusInput = "500"
  /\ voucherFilter = "all"
  /\ status = Msg("", 0, 0)
  /\ list = InitialView
  /\ locatePending = 0
  /\ runs = << >>
  /\ now = 0
  /\ requests = << >>
  /\ text \in Texts
  /\ passes = 0

\* a call of normalizeForQuery on the text
Normalize ==
  /\ passes < MaxPasses
  /\ text' = normalizeForQuery(text)
  /\ passes' = passes + 1
  /\ UNCHANGED <<storesFile, geoFile, storageMode, localStorage, tabWrites, mainPc, stores,
                 centerLatLng, batchVars, pendingUpdateTimer, radiusInput, voucherFilter,
                 status, list, locatePending, now, requests>>

NextNormalize == Normalize

SpecNormalize == InitNormalize /\ [][NextNormalize]_vars

\* ------------------------------------------------------------- spatial query
InList(i, seq) == \E n \in 1..Len(seq) : seq[n] = i

\* the category a filter value selects
FilterCategory(f) == IF f = "common" THEN VoucherCommon ELSE VoucherBoth

ShouldBeNearby(i) ==
  /\ IsFinite(stores[i].lat) /\ IsFinite(stores[i].lng)
  /\ voucherFilter = "all" \/ stores[i].voucher = FilterCategory(voucherFilter)
  /\ distanceMeters(centerLatLng.lat, centerLatLng.lng, stores[i].lat, stores[i].lng)
       <= getRadiusMeters(radiusInput)

\* C4: a shop is in the rendered result exactly if it has finite coordinates,
\* its voucher category is the one the filter selects (or the filter is
\* 'all') and its distance from the center is at most the radius; no shop is
\* listed twice.
C4_ResultMembership ==
  list.kind = "results" =>
    /\ \A i \in 1..Len(stores) : InList(i, list.nearby) <=> ShouldBeNearby(i)
    /\ \A m, n \in 1..Len(list.nearby) : list.nearby[m] = list.nearby[n] => m = n

\* a result that lists a shop and leaves out one without coordinates, one
\* beyond the radius and one within the radius of another category
C4_Witness ==
  /\ list.kind = "results"
  /\ voucherFilter # "all"
  /\ list.nearby # << >>
  /\ \E i, j, k \in 1..Len(stores) :
       /\ ~HasCoords(stores[i])
       /\ HasCoords(stores[j])
       /\ Distance(centerLatLng, stores[j]) > getRadiusMeters(radiusInput)
       /\ stores[j].voucher = FilterCategory(voucherFilter)
       /\ HasCoords(stores[k])
       /\ Distance(centerLatLng, stores[k]) <= getRadiusMeters(radiusInput)
       /\ stores[k].voucher # FilterCategory(voucherFilter)
       /\ ~InList(i, list.nearby) /\ ~InList(j, list.nearby) /\ ~InList(k, list.nearby)

\* C5: the rendered result is in order of non-decreasing distance, and shops at
\* equal distance are in the order of the dataset.
DistanceOf(i) == Distance(centerLatLng, stores[i])

C5_SortedStable ==
  list.kind = "results" =>
    \A m, n \in 1..Len(list.nearby) :
      m < n =>
        /\ DistanceOf(list.nearby[m]) <= DistanceOf(list.nearby[n])
        /\ DistanceOf(list.nearby[m]) = DistanceOf(list.nearby[n])
             => list.nearby[m] < list.nearby[n]

\* a result with two shops at one distance and, before them, a nearer shop that
\* comes after them in the dataset
C5_Witness ==
  /\ list.kind = "results"
  /\ Len(list.nearby) >= 3
  /\ \E m, n \in 1..Len(list.nearby) :
       /\ m < n
       /\ DistanceOf(list.nearby[m]) = DistanceOf(list.nearby[n])
       /\ \E k \in 1..Len(list.nearby) :
            /\ k < m
            /\ list.nearby[k] > list.nearby[n]
            /\ DistanceOf(list.nearby[k]) < DistanceOf(list.nearby[m])

\* ---------------------------------------------------------------- the batch
\* the position in stores of the shop an invocation is processing
ShopOf(r) == r.missing[r.k]

\* the last candidate of the shop of invocation i is answered without a match
LastCandidateFails(i) ==
  /\ runs[i].pc \in {"fetch", "json"}
  /\ runs[i].qi = Len(runs[i].queries)
  /\ NextCandidate(i)

\* C6: when the last candidate of a shop (the simplified query, where it
\* differs from the normalized one) gets no match, the shop stays without
\* coordinates, the cache is not written, done advances by exactly one, and the
\* batch goes on: it sleeps and then takes a later shop or finishes.
C6_NoMatch ==
  /\ [][\A i \in DOMAIN runs :
          LastCandidateFails(i) =>
            /\ ~HasCoords(stores'[ShopOf(runs[i])])
            /\ localStorage' = localStorage
            /\ geocodeProgress'.done = geocodeProgress.done + 1
            /\ geocodeProgress'.total = geocodeProgress.total
            /\ geocodeRunning'
            /\ \E j \in DOMAIN runs' :
                 /\ runs'[j].pc = "sleep"
                 /\ runs'[j].missing = runs[i].missing
                 /\ runs'[j].k = runs[i].k]_vars
  /\ [][\A i \in DOMAIN runs :
          (runs[i].pc = "sleep" /\ runs' # runs) =>
            \/ runs' = << >> /\ ~geocodeRunning' /\ status'.msg = "finished"
            \/ \E j \in DOMAIN runs' :
                 /\ runs'[j].missing = runs[i].missing
                 /\ runs'[j].k > runs[i].k]_vars

\* both candidates of a shop have been answered without a match, and the
\* invocation sleeps before the next shop
C6_Witness ==
  \E i \in DOMAIN runs :
    /\ runs[i].pc = "sleep"
    /\ Len(buildQueries(stores[ShopOf(runs[i])].fullAddress)) = 2
    /\ ~HasCoords(stores[ShopOf(runs[i])])
    /\ ~loadCachedCoords(localStorage, stores[ShopOf(runs[i])].id).found
    /\ geocodeProgress.done = runs[i].k

\* a step in which a click starts a batch: the loop suspends at an await, or
\* runs to its end adopting cache entries
BatchBegins == mainPc = "ready" /\ runs = << >> /\ (runs' # << >> \/ stores' # stores)

\* a step in which the sleep of an invocation ends
Wakes == runs # << >> /\ runs[1].pc = "sleep" /\ runs' # runs

\* the positions of `missing` a lookup request is issued for in this step
NewlyRequested ==
  IF runs' = << >> THEN {}
  ELSE runs'[1].requested \ (IF runs = << >> THEN {} ELSE runs[1].requested)

\* the loop takes the turns of the shops from position k0 on: the shops it
\* passes have a cache entry and take its value, with no request
TurnsTaken(missing, k0) ==
  LET k1 == IF runs' = << >> THEN Len(missing) + 1 ELSE runs'[1].k
  IN /\ k0 <= k1
     /\ \A k \in k0..(k1 - 1) :
          LET cached == loadCachedCoords(localStorage, stores[missing[k]].id)
          IN /\ cached.found
             /\ stores'[missing[k]].lat = cached.lat
             /\ stores'[missing[k]].lng = cached.lng
             /\ k \notin NewlyRequested

\* C7: a lookup request is issued for a shop only at its turn, when it has no
\* coordinates and the cache read yields no entry for its id; a shop whose
\* cache read yields an entry at its turn takes that value and no request is
\* issued for it.
C7_LookupOnlyWhenUncached ==
  /\ [](\A i \in DOMAIN runs :
          /\ runs[i].pc \in {"fetch", "json"} => runs[i].k \in runs[i].requested
          /\ \A k \in runs[i].requested : k <= runs[i].k)
  /\ [][\A k \in NewlyRequested :
          /\ k = runs'[1].k
          /\ ~HasCoords(stores[runs'[1].missing[k]])
          /\ ~loadCachedCoords(localStorage, stores[runs'[1].missing[k]].id).found]_vars
  /\ [][BatchBegins => TurnsTaken(Missing(stores), 1)]_vars
  /\ [][Wakes => TurnsTaken(runs[1].missing, runs[1].k + 1)]_vars

\* a shop with candidates has got its coordinates during the batch and no
\* request has been issued for it
C7_Witness ==
  \E i \in DOMAIN runs :
    \E k \in 1..(runs[i].k - 1) :
      /\ k \notin runs[i].requested
      /\ buildQueries(stores[runs[i].missing[k]].fullAddress) # << >>
      /\ HasCoords(stores[runs[i].missing[k]])
      /\ localStorage[stores[runs[i].missing[k]].id]
           = Entry(stores[runs[i].missing[k]].lat, stores[runs[i].missing[k]].lng)

\* the invocations with a request to the geocoding service outstanding
Outstanding == {i \in DOMAIN runs : runs[i].pc \in {"fetch", "json"}}

\* invocation j has issued a request in this step
Issues(j) == runs'[j].pc = "fetch" /\ \A i \in DOMAIN runs : runs[i] # runs'[j]

\* C8: at most one request to the geocoding service is outstanding; a request
\* is the normalized query of a shop that comes after every shop processed so
\* far, or the simplified query of the shop whose normalized query has just
\* been answered without a match; the shops are taken in dataset order.
C8_Sequential ==
  /\ [](/\ Cardinality(Outstanding) <= 1
        /\ \A i \in DOMAIN runs :
             \A a, b \in DOMAIN runs[i].missing :
               a < b => runs[i].missing[a] < runs[i].missing[b])
  /\ [][\A j \in DOMAIN runs' :
          Issues(j) =>
            LET r == runs'[j]
                address == stores[ShopOf(r)].fullAddress
            IN /\ Outstanding' = {j}
               /\ IF r.qi = 1
                  THEN /\ r.queries[1] = normalizeForQuery(address)
                       /\ Outstanding = {}
                       /\ \A i \in DOMAIN runs : runs[i].k < r.k
                  ELSE /\ r.qi = 2
                       /\ r.queries[2] = simplifiedQuery(address)
                       /\ \E i \in Outstanding :
                            /\ runs[i].k = r.k
                            /\ runs[i].qi = 1
                            /\ runs[i].missing = r.missing]_vars

\* the simplified query of a shop is outstanding
C8_Witness ==
  \E i \in DOMAIN runs :
    /\ runs[i].pc = "fetch"
    /\ runs[i].qi = 2
    /\ runs[i].queries[2] = simplifiedQuery(stores[ShopOf(runs[i])].fullAddress)
    /\ runs[i].queries[2] # runs[i].queries[1]

\* ------------------------------------------------------------ the debounce
\* a step in which the pending re-evaluation runs
Evaluates == pendingUpdateTimer.armed /\ ~pendingUpdateTimer'.armed

\* a step in which a re-evaluation is requested
Requests == Len(requests') = Len(requests) + 1

C10_AsStated ==
  mainPc = "failed" =>
    /\ list = FailureView
    /\ ~geocodeRunning /\ runs = << >>

\* C10, what holds: after a failed startup the controls wireUi would have wired
\* do nothing (no locate, no radius or filter change, no batch), and the only
\* event that proceeds is a tap on the map, which queries the empty shop list.
C10_OnlyMapTapProceeds ==
  /\ [](mainPc = "failed" =>
          /\ stores = << >>
          /\ ~geocodeRunning /\ runs = << >>
          /\ locatePending = 0
          /\ radiusInput = "500" /\ voucherFilter = "all"
          /\ list = FailureView \/ (list.kind = "results" /\ list.nearby = << >>))
  /\ [][mainPc = "failed" =>
          /\ mainPc' = "failed"
          /\ (list' # list \/ status' # status) => centerLatLng' \in Centers]_vars

\* the failure message has been replaced by the result of a map tap
C10_Witness ==
  /\ mainPc = "failed"
  /\ list.kind = "results"
  /\ status.msg = "tap"

\* --------------------------------------------------- evaluation and loading
\* loadStores is suspended at one of its awaits (lines 311, 315, 344, 346)
Loading == mainPc \in {"awaitStores", "awaitStoresJson", "awaitGeo", "awaitGeoJson"}

\* C11 as stated: no query evaluation observes the shop list while loadStores
\* is under way (dataset not yet loaded, or cache applied and bulk file not),
\* so no result is rendered before loadStores has returned.
C11_AsStated == Loading => list.kind # "results"

\* C11, what holds: an evaluation is one step; the list it renders is the query
\* on the shops, center, radius and filter as they are when it ends.
C11_EvaluationIsAtomic ==
  [][(list' # list /\ mainPc' = mainPc)
       => list' = updateResults(stores', centerLatLng', radiusInput', voucherFilter')]_vars

\* a tap has been answered from the cache values while a bulk entry that
\* resolves a further shop is still being fetched
C11_Witness ==
  /\ mainPc \in {"awaitGeo", "awaitGeoJson"}
  /\ list.kind = "results"
  /\ list.nearby # << >>
  /\ \E i \in 1..Len(stores) :
       ~HasCoords(stores[i]) /\ GeoMatches(geoFile.entries, stores[i].id)

\* ------------------------------------------------------------- the normalizer
StartsWithPostal(s) == Len(s) >= POSTAL_DIGITS /\ \A i \in 1..POSTAL_DIGITS : IsDigit(s[i])

\* C12 as stated: a normalized string is left as it is by normalizeForQuery.
C12_AsStated == passes >= 1 => normalizeForQuery(text) = text

\* C12, what holds: a normalized string that does not begin with seven digits
\* is left as it is.
C12_IdempotentWithoutPostal ==
  (passes >= 1 /\ ~StartsWithPostal(text)) => normalizeForQuery(text) = text

\* a normalized string still begins with a postal code, which a second pass
\* removes
C12_Witness ==
  /\ passes = 1
  /\ StartsWithPostal(text)
  /\ normalizeForQuery(text) # text

\* ------------------------------------------------------------ rate limiting
\* invocation i leaves the lookups of its shop in this step: one of them is
\* answered with coordinates, or the last of them fails
LeavesLookups(i) ==
  /\ runs[i].pc \in {"fetch", "json"}
  /\ \A j \in DOMAIN runs' :
       ~(runs'[j].pc \in {"fetch", "json"} /\ runs'[j].k = runs[i].k
         /\ runs'[j].missing = runs[i].missing)

\* C13: when the lookups of a shop are over, with or without coordinates, done
\* advances by one and the invocation sleeps (GEOCODE_DELAY_MS) at that shop;
\* the first lookup of a shop is issued when a batch begins or a sleep ends, and
\* an invocation moves to a later shop only when its sleep ends, passing
\* without sleep only shops the cache resolves.
C13_RateLimited ==
  /\ [][\A i \in DOMAIN runs :
          LeavesLookups(i) =>
            /\ geocodeProgress'.done = geocodeProgress.done + 1
            /\ \E j \in DOMAIN runs' :
                 /\ runs'[j].pc = "sleep"
                 /\ runs'[j].k = runs[i].k
                 /\ runs'[j].missing = runs[i].missing]_vars
  /\ [][\A j \in DOMAIN runs' :
          (Issues(j) /\ runs'[j].qi = 1) => (BatchBegins \/ Wakes)]_vars
  /\ [][(runs # << >> /\ runs' # << >> /\ runs'[1].k # runs[1].k) =>
          /\ Wakes
          /\ runs'[1].k > runs[1].k
          /\ \A k \in (runs[1].k + 1)..(runs'[1].k - 1) :
               /\ loadCachedCoords(localStorage, stores[runs[1].missing[k]].id).found
               /\ HasCoords(stores'[runs[1].missing[k]])]_vars

\* the lookup of a shop is outstanding, a sleep after the one of an earlier
\* shop of the batch
C13_Witness ==
  \E i \in DOMAIN runs :
    /\ runs[i].pc = "fetch"
    /\ runs[i].qi = 1
    /\ \E k \in runs[i].requested : k < runs[i].k
    /\ geocodeProgress.done = runs[i].k - 1

\* --------------------------------------------------------- progress display
\* the values done takes in this step that line 483 publishes
Crossed ==
  {d \in (geocodeProgress.done + 1)..geocodeProgress'.done :
     Publishes(d, geocodeProgress.total)}

\* the progress is displayed and a debounced evaluation requested
Published ==
  /\ status' = Msg("preparing", geocodeProgress'.done, geocodeProgress'.total)
  /\ pendingUpdateTimer'.armed
  /\ Len(requests') = Len(requests) + 1

\* C14 as stated: whenever done reaches a multiple of 5 or total during a
\* batch, by a lookup or by the cache, the progress is published and a debounced
\* evaluation is requested.
C14_AsStated == [][(geocodeRunning /\ Crossed # {}) => Published]_vars

\* C14, what holds: when done reaches a multiple of 5 or total as the lookups
\* of a shop end, the progress is published and a debounced evaluation is
\* requested.
C14_PublishedAfterLookup ==
  [][\A i \in DOMAIN runs :
       (LeavesLookups(i) /\ Publishes(geocodeProgress'.done, geocodeProgress'.total))
         => Published]_vars

\* done has passed 5 by the cache, short of total, and nothing has been
\* published
C14_Witness ==
  /\ geocodeRunning
  /\ geocodeProgress.done >= 5
  /\ geocodeProgress.done < geocodeProgress.total
  /\ status = Msg("preparing", 0, geocodeProgress.total)
  /\ ~pendingUpdateTimer.armed
  /\ requests = << >>

\* ------------------------------------------------------- progress when idle
\* C15 as stated: while no batch is running the progress is reset.
C15_AsStated == ~geocodeRunning => geocodeProgress = [done |-> 0, total |-> 0]

\* a step in which a batch ends, of a batch of n shops
BatchEnds(n) ==
  \/ geocodeRunning /\ ~geocodeRunning' /\ n = Len(runs[1].missing)
  \/ BatchBegins /\ runs' = << >> /\ n = Len(Missing(stores))

\* C15: the progress is not reset.  While no batch is running it holds done =
\* total: the counters a batch ends with are those of all its shops, and they
\* stay until a batch begins.
C15_ProgressKeptWhenIdle ==
  /\ [](~geocodeRunning => geocodeProgress.done = geocodeProgress.total)
  /\ [][\A n \in 1..Len(stores) :
          BatchEnds(n) => geocodeProgress' = [done |-> n, total |-> n]]_vars
  /\ [][(~geocodeRunning /\ ~BatchBegins) => geocodeProgress' = geocodeProgress]_vars

\* a batch has ended and its counters are still there
C15_Witness ==
  /\ ~geocodeRunning
  /\ status.msg = "finished"
  /\ geocodeProgress.total > 0
  /\ geocodeProgress.done = geocodeProgress.total

\* ------------------------------------------------------- failing lookups
\* C16: when a lookup fails (the request is rejected or answered not ok, the
\* body does not parse or holds no coordinates) the batch keeps running: the
\* next candidate of the shop is requested, or after the last one the shop is
\* left without coordinates and the invocation sleeps before the next shop; and
\* a running batch always ends with geocodeRunning cleared.
C16_FailureNeverAborts ==
  /\ [][\A i \in DOMAIN runs :
          (runs[i].pc \in {"fetch", "json"} /\ NextCandidate(i)) =>
            /\ geocodeRunning'
            /\ mainPc' = "ready"
            /\ ~HasCoords(stores'[ShopOf(runs[i])])
            /\ \E j \in DOMAIN runs' :
                 /\ runs'[j].missing = runs[i].missing
                 /\ runs'[j].k = runs[i].k
                 /\ IF runs[i].qi < Len(runs[i].queries)
                    THEN runs'[j].pc = "fetch" /\ runs'[j].qi = runs[i].qi + 1
                    ELSE runs'[j].pc = "sleep"]_vars
  /\ (geocodeRunning ~> ~geocodeRunning)

\* a shop's lookups have all failed and the lookup of a later shop is
\* outstanding
C16_Witness ==
  \E i \in DOMAIN runs :
    /\ runs[i].pc \in {"fetch", "json"}
    /\ \E k \in runs[i].requested :
         /\ k < runs[i].k
         /\ ~HasCoords(stores[runs[i].missing[k]])

\* ------------------------------------------------------------- termination
\* C18: while a batch runs, total is the number of shops that lacked
\* coordinates when it began, done is the number of them it has processed (each
\* in turn, none twice) and is at most total; and the batch ends, idle, with
\* done = total.
C18_RunsToCompletion ==
  /\ [](geocodeRunning =>
          /\ Len(runs) = 1
          /\ geocodeProgress.total = Len(runs[1].missing)
          /\ geocodeProgress.done <= geocodeProgress.total
          /\ geocodeProgress.done
               = (IF runs[1].pc = "sleep" THEN runs[1].k ELSE runs[1].k - 1))
  /\ [][BatchBegins => geocodeProgress'.total = Len(Missing(stores))]_vars
  /\ [][(geocodeRunning /\ geocodeRunning') =>
          /\ runs'[1].missing = runs[1].missing
          /\ runs'[1].k >= runs[1].k
          /\ geocodeProgress'.total = geocodeProgress.total]_vars
  /\ (geocodeRunning
        ~> (~geocodeRunning /\ geocodeProgress.done = geocodeProgress.total))

\* a batch over all the shops has ended, some resolved and some not
C18_Witness ==
  /\ ~geocodeRunning
  /\ status.msg = "finished"
  /\ geocodeProgress = [done |-> Len(stores), total |-> Len(stores)]
  /\ \E i, j \in 1..Len(stores) : HasCoords(stores[i]) /\ ~HasCoords(stores[j])

\* ------------------------------------------------------ failing storage
\* the shops that get coordinates in this step
Resolved == {i \in 1..Len(stores) : ~HasCoords(stores[i]) /\ HasCoords(stores'[i])}

\* C17: with a storage whose accesses throw, loadStores still returns with
\* every shop of a well-formed bulk entry at the bulk value (and, when reads
\* throw, no other shop resolved), and the batch still gives a shop the
\* coordinate of its lookup and goes on to its sleep before the next shop; a
\* failing read resolves no shop and a failing write leaves the storage as it
\* was.
C17_StorageFailuresTolerated ==
  /\ [][(storageMode # "ok" /\ LoadStoresReturns) =>
          /\ localStorage' = localStorage
          /\ \A i \in 1..Len(stores') :
               IF HasBulkEntry(i)
               THEN <<stores'[i].lat, stores'[i].lng>>
                      = <<BulkEntryOf(i).lat, BulkEntryOf(i).lng>>
               ELSE storageMode = "denied" => ~HasCoords(stores'[i])]_vars
  /\ [][(storageMode # "ok" /\ mainPc = "ready") =>
          /\ localStorage' = localStorage
          /\ mainPc' = "ready"
          /\ \A i \in Resolved :
               /\ runs # << >> /\ runs' # << >>
               /\ geocodeRunning'
               /\ storageMode = "denied" => runs[1].pc = "json"
               /\ runs[1].pc = "json" =>
                    /\ ShopOf(runs[1]) = i
                    /\ runs'[1].pc = "sleep"
                    /\ runs'[1].k = runs[1].k]_vars

\* the storage holds an entry for the first shop and throws on every access;
\* the batch has resolved that shop by a lookup to a point other than the
\* stored one, and the last shop has the value of the bulk file
C17_Witness ==
  /\ storageMode = "denied"
  /\ mainPc = "ready"
  /\ localStorage[1] = Entry(LatA, Lng0)
  /\ HasCoords(stores[1])
  /\ stores[1].lat # LatA
  /\ stores[Len(stores)].lat = LatC
  /\ \E i \in DOMAIN runs : runs[i].pc = "sleep" /\ ShopOf(runs[i]) = 1

\* ------------------------------------------------------------ re-evaluation
\* startup has finished, a center is set, no batch runs and no timeout of
\* scheduleUpdateResults is pending
Settled ==
  /\ mainPc = "ready"
  /\ centerLatLng # NoCenter
  /\ ~geocodeRunning
  /\ ~pendingUpdateTimer.armed

\* the results area shows the query on the current shops, center, radius and
\* filter
Fresh == list = updateResults(stores, centerLatLng, radiusInput, voucherFilter)

\* C19 as stated: in every state with a center set, no batch running, startup
\* finished and no debounce timer pending, the displayed result is the query
\* evaluated on the current coordinates, center, radius and filter.
C19_AsStated == Settled => Fresh

\* C19, what holds: after startup, every step into such a state either leaves
\* the display showing the query on the current values or changes neither the
\* display nor those values; a display that differs is the empty result main
\* renders (line 597) after loadStores, over a center tapped while it loaded.
C19_ReEvaluatedAfterStartup ==
  /\ [][(mainPc = "ready" /\ Settled') =>
          \/ Fresh'
          \/ UNCHANGED <<list, stores, centerLatLng, radiusInput, voucherFilter>>]_vars
  /\ [][(mainPc # "ready" /\ mainPc' = "ready") =>
          list' = renderList(centerLatLng', << >>, 0)]_vars
  /\ []((Settled /\ ~Fresh) => list = renderList(centerLatLng, << >>, 0))

\* startup has finished over a center tapped during loading: the results area
\* shows no shop while the query on the current values finds one
C19_Witness ==
  /\ Settled
  /\ list.kind = "results"
  /\ list.nearby = << >>
  /\ updateResults(stores, centerLatLng, radiusInput, voucherFilter).nearby # << >>

\* ------------------------------------------------- coordinates are kept
\* C20: after loadStores has returned, a shop that has coordinates keeps them
\* in every step; the coordinates of the shops change only in steps of the
\* batch (its start and the continuations of its invocation), which give
\* coordinates to shops of its list `missing` at or after its position only,
\* all of them without coordinates until then; taps, locating, radius and
\* filter changes, timeouts and a start request while a batch runs leave them
\* all unchanged.
C20_CoordinatesKept ==
  /\ [][mainPc = "ready" =>
          /\ Len(stores') = Len(stores)
          /\ \A i \in 1..Len(stores) : HasCoords(stores[i]) => stores'[i] = stores[i]]_vars
  /\ [][(mainPc = "ready" /\ stores' # stores) =>
          \/ BatchBegins
          \/ /\ geocodeRunning
             /\ runs # << >> /\ runs' # runs
             /\ Resolved \subseteq {runs[1].missing[k] :
                                      k \in runs[1].k..Len(runs[1].missing)}]_vars
  /\ [](geocodeRunning =>
          \A i \in DOMAIN runs :
            \A k \in (runs[i].k + 1)..Len(runs[i].missing) :
              ~HasCoords(stores[runs[i].missing[k]]))

\* the last shop has had the bulk file's value since startup, a center is set
\* and the batch has resolved the first shop by a lookup
C20_Witness ==
  /\ mainPc = "ready"
  /\ centerLatLng # NoCenter
  /\ stores[Len(stores)].lat = LatC
  /\ HasBulkEntry(Len(stores))
  /\ \E i \in DOMAIN runs :
       /\ runs[i].pc = "sleep"
       /\ ShopOf(runs[i]) = 1
       /\ 1 \in runs[i].requested
       /\ HasCoords(stores[1])

====
